---- MODULE Spec2Model ----
(***************************************************************************)
(* A model of rbom (src/src/lib.rs): the BOM container loader (Bom::new),  *)
(* the bounds-checked block lookup (Bom::pointer, Bom::pointer_for_var)    *)
(* and the recursive tree fold (Bom::reduce_tree) with its by-name and     *)
(* map specialisations.                                                    *)
(*                                                                         *)
(* The buffer is a sequence of bytes; every structure is decoded from it   *)
(* big-endian, as the code does.  Offsets are 0-based as in the code; the  *)
(* byte at offset p is buffer[p+1].                                        *)
(*                                                                         *)
(* u32 fields are modelled for values below 2^31 (TLC's integers are       *)
(* 32-bit signed): files with a u32 field whose top bit is set are outside *)
(* the modelled inputs, so `address + length` never wraps here.  Variable  *)
(* names are ASCII, so parse_string never fails on their encoding.         *)
(*                                                                         *)
(* binary_parser::Binary is an external crate.  Its reads are modelled as  *)
(* bounds-checked: a read of n bytes at position p returns Err (and the    *)
(* code's .unwrap() panics) unless p + n <= data.len().                    *)
(***************************************************************************)
EXTENDS Integers, Sequences, FiniteSets, TLC

\* The deepest recursion of reduce_tree the model follows; one more nested
\* call stands for the exhaustion of the call stack.
MaxDepth == 6

\* The size of the window parse_vars hands to Var::from.
VarWindow == 1024

----------------------------------------------------------------------------
(* Big-endian decoding: binary_parser's parse_u8 / parse_u16_be /          *)
(* parse_u32_be, at a 0-based offset p of the data d.                      *)

\* A read of n bytes at position p stays inside d.
Fits(d, p, n) == p <= Len(d) /\ n <= Len(d) - p

U8(d, p) == d[p + 1]

U16BE(d, p) == d[p + 1] * 256 + d[p + 2]

U32BE(d, p) == ((d[p + 1] * 256 + d[p + 2]) * 256 + d[p + 3]) * 256 + d[p + 4]

\* &d[from..]: the tail of d from offset `from` (panics when from > len).
SliceFrom(d, from) == SubSeq(d, from + 1, Len(d))

\* get_buffer(p, n) / parse_buffer(n) at p: the n bytes at offset p.
Bytes(d, p, n) == SubSeq(d, p + 1, p + n)

----------------------------------------------------------------------------
(* The decoded structures.                                                 *)

HeaderFrom(buf) ==
    [signature        |-> Bytes(buf, 0, 8),
     version          |-> U32BE(buf, 8),
     number_of_blocks |-> U32BE(buf, 12),
     index_offset     |-> U32BE(buf, 16),
     index_length     |-> U32BE(buf, 20),
     vars_offset      |-> U32BE(buf, 24),
     vars_length      |-> U32BE(buf, 28)]

PointerFrom(buf, p) ==
    [address |-> U32BE(buf, p), length |-> U32BE(buf, p + 4)]

\* Var::from over the window starting at offset p: index, length, name.
VarFrom(buf, p) ==
    [index  |-> U32BE(buf, p),
     length |-> U8(buf, p + 4),
     name   |-> Bytes(buf, p + 5, U8(buf, p + 4))]

\* Tree::from needs 4 + 4 + 4 + 4 + 4 + 1 bytes.
TreeFits(buf) == Fits(buf, 0, 21)

TreeFrom(buf) ==
    [tree       |-> Bytes(buf, 0, 4),
     version    |-> U32BE(buf, 4),
     child      |-> U32BE(buf, 8),
     block_size |-> U32BE(buf, 12),
     path_count |-> U32BE(buf, 16)]

\* The record stores the value index first, the key index second.
TreeEntryIndicesFrom(buf, p) ==
    [value_index |-> U32BE(buf, p), key_index |-> U32BE(buf, p + 4)]

TreeEntryFrom(buf, p) ==
    [is_leaf  |-> U16BE(buf, p),
     count    |-> U16BE(buf, p + 2),
     forward  |-> U32BE(buf, p + 4),
     backward |-> U32BE(buf, p + 8)]

----------------------------------------------------------------------------
(* Bom::new: header, block table, free-block table, variable directory.    *)

\* parse_pointers reads a u32 count and then count entries of 8 bytes;
\* every read is unwrapped, so a short slice panics.
PointersFit(bytes) ==
    /\ Fits(bytes, 0, 4)
    /\ U32BE(bytes, 0) <= (Len(bytes) - 4) \div 8

parse_pointers(bytes) ==
    [i \in 1..U32BE(bytes, 0) |-> PointerFrom(bytes, 4 + 8 * (i - 1))]

\* HashMap::insert: the last write for a name wins.
Insert(m, k, v) ==
    [x \in (DOMAIN m) \cup {k} |-> IF x = k THEN v ELSE m[x]]

\* The loop of parse_vars: `left` entries still to read, `pointer` the
\* running offset past bin.position() = 4.  Each entry is decoded from a
\* window of 1024 bytes got with get_buffer(..).unwrap().
RECURSIVE VarsLoop(_, _, _, _)
VarsLoop(bytes, left, pointer, vars) ==
    IF left = 0 THEN [ok |-> TRUE, vars |-> vars]
    ELSE IF ~Fits(bytes, 4 + pointer, VarWindow) THEN [ok |-> FALSE, vars |-> vars]
    ELSE LET var == VarFrom(bytes, 4 + pointer)
         IN  VarsLoop(bytes, left - 1, pointer + var.length + 5,
                      Insert(vars, var.name, var.index))

parse_vars(bytes) ==
    IF ~Fits(bytes, 0, 4) THEN [ok |-> FALSE, vars |-> << >>]
    ELSE VarsLoop(bytes, U32BE(bytes, 0), 0, << >>)

\* Bom::new(buffer): the container, or ok = FALSE where an unwrap or a
\* slice index panics.
NoHeader ==
    [signature |-> << >>, version |-> 0, number_of_blocks |-> 0,
     index_offset |-> 0, index_length |-> 0, vars_offset |-> 0,
     vars_length |-> 0]

NoBom ==
    [ok |-> FALSE, header |-> NoHeader, pointers |-> << >>,
     free_pointers |-> << >>, variables |-> << >>]

BomNew(buf) ==
    IF ~Fits(buf, 0, 32) THEN NoBom
    ELSE LET h == HeaderFrom(buf) IN
    IF h.index_offset > Len(buf) THEN NoBom
    ELSE LET idx == SliceFrom(buf, h.index_offset) IN
    IF ~PointersFit(idx) THEN NoBom
    ELSE LET ptrs == parse_pointers(idx)
             free_pointers_offset == h.index_offset + 4 + Len(ptrs) * 8
             fre  == SliceFrom(buf, free_pointers_offset) IN
    IF ~PointersFit(fre) THEN NoBom
    ELSE IF h.vars_offset > Len(buf) THEN NoBom
    ELSE LET vs == parse_vars(SliceFrom(buf, h.vars_offset)) IN
    IF ~vs.ok THEN NoBom
    ELSE [ok |-> TRUE, header |-> h, pointers |-> ptrs,
          free_pointers |-> parse_pointers(fre), variables |-> vs.vars]

----------------------------------------------------------------------------
(* Input files.  A file is laid out as                                     *)
(*   header (32) | block table | free-block table | blocks | variable      *)
(*   directory | VarWindow zero bytes                                      *)
(* and is described by the tree root's child index, three tree nodes       *)
(* (blocks 2, 3, 4), four key/value blocks (5..8) and the variables.       *)
(* Block 0 is the null block, block 1 the tree root record.                *)

U16Bytes(n) == <<n \div 256, n % 256>>

U32Bytes(n) ==
    <<n \div 16777216, (n \div 65536) % 256, (n \div 256) % 256, n % 256>>

RECURSIVE Concat(_)
Concat(ss) == IF ss = << >> THEN << >> ELSE Head(ss) \o Concat(Tail(ss))

Zeros(n) == [i \in 1..n |-> 0]

\* A block of the file: the bytes stored for it, the length the block table
\* declares, and the address the table declares: where the bytes are
\* ("auto"), the last 12 bytes of the file ("end"), or a given one ("at").
Block(bytes, length, place, address) ==
    [bytes |-> bytes, length |-> length, place |-> place, address |-> address]

Stored(bytes) == Block(bytes, Len(bytes), "auto", 0)

\* A tree node: the 12-byte TreeEntry, the stored pairs <<value, key>>, and
\* for an internal node the child index, which the format puts right after
\* the block (at address + length): << >> for none, <<c>> for child c.
Node(is_leaf, count, forward, pairs, child) ==
    [is_leaf |-> is_leaf, count |-> count, forward |-> forward,
     pairs |-> pairs, child |-> child, place |-> "auto", address |-> 0]

NodeBlock(nd) ==
    Block(U16Bytes(nd.is_leaf) \o U16Bytes(nd.count) \o U32Bytes(nd.forward)
            \o U32Bytes(0)
            \o Concat([i \in 1..Len(nd.pairs) |->
                         U32Bytes(nd.pairs[i][1]) \o U32Bytes(nd.pairs[i][2])])
            \o Concat([i \in 1..Len(nd.child) |-> U32Bytes(nd.child[i])]),
          12 + 8 * Len(nd.pairs), nd.place, nd.address)

TreeBlock(child) ==
    Block(<<116, 114, 101, 101>> \o U32Bytes(1) \o U32Bytes(child)
            \o U32Bytes(4096) \o U32Bytes(3) \o <<0>>,
          21, "auto", 0)

Blocks(fx) ==
    <<Block(<< >>, 0, "at", 0), TreeBlock(fx.child),
      NodeBlock(fx.n2), NodeBlock(fx.n3), NodeBlock(fx.n4),
      fx.k5, fx.v6, fx.k7, fx.v8>>

RECURSIVE SizeBefore(_, _)
SizeBefore(blocks, i) ==
    IF i <= 1 THEN 0 ELSE SizeBefore(blocks, i - 1) + Len(blocks[i - 1].bytes)

VarBytes(v) == U32Bytes(v.index) \o <<Len(v.name)>> \o v.name

Signature == <<66, 79, 77, 83, 116, 111, 114, 101>>

FileBytes(fx) ==
    LET blocks    == Blocks(fx)
        n         == Len(blocks)
        dataStart == 32 + 4 + 8 * n + 4
        data      == Concat([i \in 1..n |-> blocks[i].bytes])
        varsOff   == dataStart + Len(data)
        vars      == U32Bytes(Len(fx.vars))
                       \o Concat([i \in 1..Len(fx.vars) |-> VarBytes(fx.vars[i])])
        total     == varsOff + Len(vars) + VarWindow
        addr(i)   == CASE blocks[i].place = "auto" -> dataStart + SizeBefore(blocks, i)
                       [] blocks[i].place = "end"  -> total - 12
                       [] blocks[i].place = "at"   -> blocks[i].address
        table     == U32Bytes(n)
                       \o Concat([i \in 1..n |->
                                    U32Bytes(addr(i)) \o U32Bytes(blocks[i].length)])
        head      == Signature \o U32Bytes(1) \o U32Bytes(n) \o U32Bytes(32)
                       \o U32Bytes(Len(table) + 4) \o U32Bytes(varsOff)
                       \o U32Bytes(Len(vars))
        whole     == head \o table \o U32Bytes(0) \o data \o vars \o Zeros(VarWindow)
    IN  CASE fx.cut = "none"   -> whole
          [] fx.cut = "header" -> SubSeq(whole, 1, 20)
          [] fx.cut = "index"  -> SubSeq(whole, 1, 32 + 4 + 8 * 3)
          [] fx.cut = "vars"   -> SubSeq(whole, 1, varsOff + 6)

P == <<80>>
Q == <<81>>
Z == <<90>>

\* An index past the block table of every file (the table has 9 entries).
Beyond == 99
\* An address past the end of every file.
Outside == 60000

\* The well-formed file: an internal root (2) whose child is the leaf 3,
\* which is followed by its sibling leaf 4.
Good ==
    [child |-> 2,
     n2 |-> Node(0, 0, 0, << >>, <<3>>),
     n3 |-> Node(1, 2, 4, <<<<6, 5>>, <<8, 7>>>>, << >>),
     n4 |-> Node(1, 1, 0, <<<<8, 5>>>>, << >>),
     k5 |-> Stored(<<97>>),
     v6 |-> Stored(<<1, 2>>),
     k7 |-> Stored(<<98, 99>>),
     v8 |-> Stored(<<3>>),
     vars |-> <<[index |-> 1, name |-> P]>>,
     cut |-> "none"]

Fixtures ==
    { Good,
      \* leaf pairs that cannot be used
      [Good EXCEPT !.n3.pairs[1] = <<6, Beyond>>],
      [Good EXCEPT !.n3.pairs[2] = <<Beyond, 7>>],
      [Good EXCEPT !.k5 = Stored(<< >>)],
      [Good EXCEPT !.v8 = Stored(<< >>)],
      \* a key block the table places outside the file, and a variable on it
      [Good EXCEPT !.k7 = Block(<< >>, 2, "at", Outside),
                   !.vars = <<[index |-> 1, name |-> P], [index |-> 7, name |-> Q]>>],
      [Good EXCEPT !.v6 = Block(<< >>, 2, "at", Outside)],
      \* node indices past the block table
      [Good EXCEPT !.child = Beyond],
      [Good EXCEPT !.n2.child = <<Beyond>>],
      [Good EXCEPT !.n3.forward = Beyond],
      \* internal nodes that declare entries
      [Good EXCEPT !.n2.count = 1],
      [Good EXCEPT !.n2.count = 3, !.n2.forward = 4],
      \* link cycles
      [Good EXCEPT !.n4.forward = 3],
      [Good EXCEPT !.n3.forward = 3],
      [Good EXCEPT !.n2.child = <<2>>],
      [Good EXCEPT !.n4.forward = 2],
      [Good EXCEPT !.n2.forward = 2],
      \* a node with two incoming links
      [Good EXCEPT !.n2.forward = 4],
      \* node shapes
      [Good EXCEPT !.n3.is_leaf = 2],
      [Good EXCEPT !.n3.count = 3],
      [Good EXCEPT !.n4.count = 0],
      [Good EXCEPT !.n4.place = "end"],
      \* an internal node in the last 12 bytes: its child index is past the end
      [Good EXCEPT !.n4 = [Node(0, 0, 0, << >>, << >>) EXCEPT !.place = "end"]],
      [Good EXCEPT !.n4.place = "at", !.n4.address = Outside],
      \* variable directories
      [Good EXCEPT !.vars = <<[index |-> Beyond, name |-> P], [index |-> 1, name |-> P]>>],
      [Good EXCEPT !.vars = <<[index |-> Beyond, name |-> P]>>],
      [Good EXCEPT !.vars = << >>],
      \* truncated files
      [Good EXCEPT !.cut = "header"],
      [Good EXCEPT !.cut = "index"],
      [Good EXCEPT !.cut = "vars"] }

Files == {FileBytes(fx) : fx \in Fixtures}

----------------------------------------------------------------------------
(* The program state.                                                      *)

VARIABLES
    buffer,         \* the bytes of the file (Bom.buffer once loaded)
    fs_read_ok,     \* whether fs::read(path) succeeds
    pc,             \* "new" | "idle" | "walk" | "panicked" | "overflow"
    header,         \* Bom.header
    pointers,       \* Bom.pointers
    free_pointers,  \* Bom.free_pointers
    variables,      \* Bom.variables
    call,           \* the public operation in progress or last made
    stack,          \* the pending activations of reduce_tree, innermost last
    current_value,  \* the accumulator threaded through the activations
    result,         \* what the last operation returned
    warnings,       \* the warn! records of the operation
    visited,        \* the key/value pairs the closure was invoked on
    entered,        \* the block indices reduce_tree read a node header at
    hist            \* what reduce_tree / map_tree returned before, per root

vars ==
    <<buffer, fs_read_ok, pc, header, pointers, free_pointers, variables,
      call, stack, current_value, result, warnings, visited, entered, hist>>

bom == <<buffer, fs_read_ok, header, pointers, free_pointers, variables>>

\* The roots the caller passes to reduce_tree / map_tree, the names it looks
\* up, and the indices it passes to pointer.
Roots == {2, 4, Beyond}
Names == {P, Q, Z}
Indices == {0, 6, 7, 8, 9, Beyond}

NoCall == [op |-> "none", root |-> 0, name |-> << >>]
\* An accumulator: the running count of the counting closure, the vector
\* of the mapping closure.
Empty == [count |-> 0, vec |-> << >>]

NullPointer == [address |-> 0, length |-> 0]

\* What an operation returned: nothing yet ("none"), Some(ptr) ("some"),
\* None ("absent"), Err about a name ("err"), Ok(value) ("ok"), a bare
\* accumulator ("value").
Result(kind, value, ptr, name) ==
    [kind |-> kind, value |-> value, ptr |-> ptr, name |-> name]

NoResult == Result("none", Empty, NullPointer, << >>)
NoHist ==
    [has_count |-> FALSE, count |-> 0, pairs |-> << >>,
     has_map |-> FALSE, map |-> << >>]

Init ==
    /\ \/ buffer \in Files /\ fs_read_ok = TRUE
       \/ buffer = << >> /\ fs_read_ok = FALSE
    /\ pc = "new"
    /\ header = NoHeader
    /\ pointers = << >>
    /\ free_pointers = << >>
    /\ variables = << >>
    /\ call = NoCall
    /\ stack = << >>
    /\ current_value = Empty
    /\ result = NoResult
    /\ warnings = 0
    /\ visited = << >>
    /\ entered = << >>
    /\ hist = [r \in Roots |-> NoHist]

\* A panic: the process is gone, nothing is returned.
Panic ==
    /\ pc' = "panicked"
    /\ UNCHANGED <<bom, call, stack, current_value, result, warnings,
                   visited, entered, hist>>

\* Bom::with_file(path) = Bom::new(fs::read(path).unwrap()).
with_file ==
    /\ pc = "new"
    /\ LET b == BomNew(buffer) IN
       IF fs_read_ok /\ b.ok
         THEN /\ pc' = "idle"
              /\ header' = b.header
              /\ pointers' = b.pointers
              /\ free_pointers' = b.free_pointers
              /\ variables' = b.variables
              /\ UNCHANGED <<buffer, fs_read_ok, call, stack, current_value,
                             result, warnings, visited, entered, hist>>
         ELSE Panic

----------------------------------------------------------------------------
(* Block lookup.                                                           *)

\* Vec::get: Some(&pointers[index]) when index < len, else None.
pointer(index) ==
    IF index < Len(pointers)
      THEN [some |-> TRUE, ptr |-> pointers[index + 1]]
      ELSE [some |-> FALSE, ptr |-> NullPointer]

pointer_for_var(name) ==
    IF name \in DOMAIN variables
      THEN pointer(variables[name])
      ELSE [some |-> FALSE, ptr |-> NullPointer]

\* The caller asks for a block.
call_pointer(index) ==
    /\ pc = "idle"
    /\ call' = [op |-> "pointer", root |-> index, name |-> << >>]
    /\ result' = IF pointer(index).some
                   THEN Result("some", Empty, pointer(index).ptr, << >>)
                   ELSE Result("absent", Empty, NullPointer, << >>)
    /\ UNCHANGED <<bom, pc, stack, current_value, warnings, visited, entered, hist>>

----------------------------------------------------------------------------
(* The closures the callers pass.                                          *)

\* tests::reducing_tree: |reduction, _, _| reduction + 1
Count(acc, key, value) == [acc EXCEPT !.count = @ + 1]

\* The mapping function given to map_tree.
MapFn(key, value) == <<Len(key), value>>

\* Push as it would be if the new element went to the front.
PushFront(acc, key, value) == [acc EXCEPT !.vec = <<MapFn(key, value)>> \o @]

\* map_tree's closure: acc.push(map(key, value)); acc
Push(acc, key, value) == [acc EXCEPT !.vec = Append(@, MapFn(key, value))]

IsMap(op) == op \in {"map_tree", "map_tree_for_variable"}

\* The closure of the operation in progress.
reduce(acc, key, value) ==
    IF IsMap(call.op) THEN Push(acc, key, value) ELSE Count(acc, key, value)

----------------------------------------------------------------------------
(* reduce_tree, one activation per stack frame.                            *)

NoEntry == [is_leaf |-> 0, count |-> 0, forward |-> 0, backward |-> 0]

\* The activation reduce_tree(pointer_index, ..) at its first line.
Frame(pointer_index) ==
    [pointer_index |-> pointer_index, at |-> "enter", entry |-> NoEntry,
     address |-> 0, length |-> 0, pos |-> 0, i |-> 0]

Top == stack[Len(stack)]

SetTop(f) == [stack EXCEPT ![Len(stack)] = f]

\* The public operation starts the outermost activation.
Start(op, root, name) ==
    /\ pc' = "walk"
    /\ call' = [op |-> op, root |-> root, name |-> name]
    /\ stack' = <<Frame(root)>>
    /\ current_value' = Empty
    /\ result' = NoResult
    /\ warnings' = 0
    /\ visited' = << >>
    /\ entered' = << >>
    /\ UNCHANGED <<bom, hist>>

call_reduce_tree(root) ==
    /\ pc = "idle"
    /\ Start("reduce_tree", root, << >>)

call_map_tree(root) ==
    /\ pc = "idle"
    /\ Start("map_tree", root, << >>)

\* Err(format!("Variable not found: {}", var))
NotFound(name) == Result("err", Empty, NullPointer, name)

\* Tree::from(&self.buffer[pointer.address as usize..]) succeeds.
TreeReadable(ptr) ==
    /\ ptr.address <= Len(buffer)
    /\ TreeFits(SliceFrom(buffer, ptr.address))

call_reduce_tree_for_variable(name) ==
    /\ pc = "idle"
    /\ LET p == pointer_for_var(name) IN
       IF ~p.some
         THEN /\ call' = [op |-> "reduce_tree_for_variable", root |-> 0, name |-> name]
              /\ result' = NotFound(name)
              /\ UNCHANGED <<bom, pc, stack, current_value, warnings,
                             visited, entered, hist>>
       ELSE IF ~TreeReadable(p.ptr) THEN Panic
       ELSE Start("reduce_tree_for_variable",
                  TreeFrom(SliceFrom(buffer, p.ptr.address)).child, name)

\* self.pointer_for_var(var).unwrap()
call_map_tree_for_variable(name) ==
    /\ pc = "idle"
    /\ LET p == pointer_for_var(name) IN
       IF ~p.some THEN Panic
       ELSE IF ~TreeReadable(p.ptr) THEN Panic
       ELSE Start("map_tree_for_variable",
                  TreeFrom(SliceFrom(buffer, p.ptr.address)).child, name)

\* Lines 193-196: resolve the node's block and read its TreeEntry.
Enter ==
    /\ pc = "walk"
    /\ Top.at = "enter"
    /\ LET p == pointer(Top.pointer_index) IN
       IF ~p.some \/ ~Fits(buffer, p.ptr.address, 12) THEN Panic
       ELSE LET entry == TreeEntryFrom(buffer, p.ptr.address) IN
            /\ stack' = SetTop([Top EXCEPT
                   !.entry = entry,
                   !.address = p.ptr.address,
                   !.length = p.ptr.length,
                   !.pos = p.ptr.address + 12,
                   !.at = IF entry.is_leaf > 0
                            THEN IF entry.count = 0 THEN "forward" ELSE "leaf"
                          ELSE IF entry.count = 0 THEN "child"
                          ELSE "malformed"])
            /\ entered' = Append(entered, Top.pointer_index)
            /\ UNCHANGED <<bom, pc, call, current_value, result, warnings,
                           visited, hist>>

\* Usable as it would be without the test of the two lengths.
UsableAnyLength(kp, vp) == kp.some /\ vp.some

\* The match guard of line 209.
Usable(kp, vp) ==
    kp.some /\ vp.some /\ kp.ptr.length > 0 /\ vp.ptr.length > 0

\* Lines 203-222: one iteration of the loop over the leaf's pairs.
LeafPair ==
    /\ pc = "walk"
    /\ Top.at = "leaf"
    /\ IF ~Fits(buffer, Top.pos, 8) THEN Panic
       ELSE LET indices == TreeEntryIndicesFrom(buffer, Top.pos)
                kp == pointer(indices.key_index)
                vp == pointer(indices.value_index)
                next == [Top EXCEPT
                           !.pos = Top.pos + 8,
                           !.i = Top.i + 1,
                           !.at = IF Top.i + 1 = Top.entry.count
                                    THEN "forward" ELSE "leaf"]
            IN
            IF Usable(kp, vp)
              THEN IF ~Fits(buffer, kp.ptr.address, kp.ptr.length)
                      \/ ~Fits(buffer, vp.ptr.address, vp.ptr.length)
                     THEN Panic
                   ELSE LET key == Bytes(buffer, kp.ptr.address, kp.ptr.length)
                            value == Bytes(buffer, vp.ptr.address, vp.ptr.length)
                        IN
                        /\ current_value' = reduce(current_value, key, value)
                        /\ visited' = Append(visited, <<key, value>>)
                        /\ stack' = SetTop(next)
                        /\ UNCHANGED <<bom, pc, call, result, warnings,
                                       entered, hist>>
              ELSE /\ warnings' = warnings + 1
                   /\ stack' = SetTop(next)
                   /\ UNCHANGED <<bom, pc, call, current_value, result,
                                  visited, entered, hist>>

\* Recurse as it would be with a defense against cycles: a node that is
\* pending on the stack is not entered again.
RecurseUnlessPending(index, back) ==
    IF \E k \in 1..Len(stack) : stack[k].pointer_index = index
      THEN /\ stack' = SetTop([Top EXCEPT !.at = back])
           /\ UNCHANGED <<bom, pc, call, current_value, result, warnings,
                          visited, entered, hist>>
    ELSE IF Len(stack) >= MaxDepth
      THEN /\ pc' = "overflow"
           /\ UNCHANGED <<bom, call, stack, current_value, result, warnings,
                          visited, entered, hist>>
      ELSE /\ stack' = Append(SetTop([Top EXCEPT !.at = back]), Frame(index))
           /\ UNCHANGED <<bom, pc, call, current_value, result, warnings,
                          visited, entered, hist>>

\* A nested call reduce_tree(index, current_value, reduce); the caller's
\* frame waits at `back`.  Past MaxDepth the call stack is exhausted.
Recurse(index, back) ==
    IF Len(stack) >= MaxDepth
      THEN /\ pc' = "overflow"
           /\ UNCHANGED <<bom, call, stack, current_value, result, warnings,
                          visited, entered, hist>>
      ELSE /\ stack' = Append(SetTop([Top EXCEPT !.at = back]), Frame(index))
           /\ UNCHANGED <<bom, pc, call, current_value, result, warnings,
                          visited, entered, hist>>

\* Lines 223-230: an internal node with no entries; its child index is
\* read at address + length.
Descend ==
    /\ pc = "walk"
    /\ Top.at = "child"
    /\ IF ~Fits(buffer, Top.address + Top.length, 4) THEN Panic
       ELSE Recurse(U32BE(buffer, Top.address + Top.length), "forward")

\* Malformed as it would be if the node's child were followed all the same.
MalformedDescends ==
    /\ pc = "walk"
    /\ Top.at = "malformed"
    /\ IF ~Fits(buffer, Top.address + Top.length, 4) THEN Panic
       ELSE Recurse(U32BE(buffer, Top.address + Top.length), "forward")

\* Lines 231-233: an internal node that declares entries is only warned
\* about.
Malformed ==
    /\ pc = "walk"
    /\ Top.at = "malformed"
    /\ warnings' = warnings + 1
    /\ stack' = SetTop([Top EXCEPT !.at = "forward"])
    /\ UNCHANGED <<bom, pc, call, current_value, result, visited, entered, hist>>

\* What the public operation hands back for the outermost activation.
Returned(value) ==
    IF call.op = "reduce_tree_for_variable"
      THEN Result("ok", value, NullPointer, << >>)
      ELSE Result("value", value, NullPointer, << >>)

\* The caller keeps what reduce_tree and map_tree returned for a root.
Remember(h, op, value, pairs) ==
    IF op = "reduce_tree"
      THEN [h EXCEPT !.has_count = TRUE, !.count = value.count, !.pairs = pairs]
      ELSE [h EXCEPT !.has_map = TRUE, !.map = value.vec]

\* Line 241: the activation returns current_value to its caller.
Return ==
    IF Len(stack) > 1
      THEN /\ stack' = SubSeq(stack, 1, Len(stack) - 1)
           /\ UNCHANGED <<bom, pc, call, current_value, result, warnings,
                          visited, entered, hist>>
      ELSE /\ stack' = << >>
           /\ pc' = "idle"
           /\ result' = Returned(current_value)
           /\ hist' = IF call.op \in {"reduce_tree", "map_tree"}
                        THEN [hist EXCEPT ![call.root] =
                                Remember(@, call.op, current_value, visited)]
                        ELSE hist
           /\ UNCHANGED <<bom, call, current_value, warnings, visited, entered>>

\* Lines 236-238: the forward sibling, when there is one.
Forward ==
    /\ pc = "walk"
    /\ Top.at = "forward"
    /\ IF Top.entry.forward # 0
         THEN Recurse(Top.entry.forward, "return")
         ELSE Return

\* The activation whose sibling call came back.
Unwind ==
    /\ pc = "walk"
    /\ Top.at = "return"
    /\ Return

Step == Enter \/ LeafPair \/ Descend \/ Malformed \/ Forward \/ Unwind

Next ==
    \/ with_file
    \/ \E index \in Indices : call_pointer(index)
    \/ \E root \in Roots : call_reduce_tree(root)
    \/ \E root \in Roots : call_map_tree(root)
    \/ \E name \in Names : call_reduce_tree_for_variable(name)
    \/ \E name \in Names : call_map_tree_for_variable(name)
    \/ Step

Spec == Init /\ [][Next]_vars

\* The code is sequential: an operation that can take its next step takes it.
FairSpec == Spec /\ WF_vars(Step)

----------------------------------------------------------------------------
(* Properties.                                                             *)

IsWalk(op) ==
    op \in {"reduce_tree", "map_tree", "reduce_tree_for_variable",
            "map_tree_for_variable"}

\* The operation in `call` has returned the accumulator of its walk.
Completed == pc = "idle" /\ IsWalk(call.op) /\ result.kind \in {"value", "ok"}

\* C1: for a loaded container and a name absent from the variable
\* directory, reduce_tree_for_variable and map_tree_for_variable both return
\* the not-found error; neither panics, neither returns a success.
C1_AbsentNameIsNotFound ==
    [][\A name \in Names :
         (/\ name \notin DOMAIN variables
          /\ \/ call_reduce_tree_for_variable(name)
             \/ call_map_tree_for_variable(name))
           => (pc' = "idle" /\ result' = NotFound(name))]_vars

\* C2: in the loop over a leaf's pairs, a pair with an index past the block
\* table or with a zero-length block is skipped (the closure is not invoked,
\* the fold goes on); every other pair invokes the closure exactly once, on
\* its key and value bytes, and the fold goes on.
C2_LeafPairs ==
    [][(pc = "walk" /\ Top.at = "leaf" /\ Fits(buffer, Top.pos, 8)) =>
         LET key_index == U32BE(buffer, Top.pos + 4)
             value_index == U32BE(buffer, Top.pos)
             skipped == \/ key_index >= Len(pointers)
                        \/ value_index >= Len(pointers)
                        \/ pointers[key_index + 1].length = 0
                        \/ pointers[value_index + 1].length = 0
         IN  /\ pc' = "walk"
             /\ IF skipped
                  THEN visited' = visited /\ current_value' = current_value
                  ELSE /\ Len(visited') = Len(visited) + 1
                       /\ visited'[Len(visited')] =
                            <<Bytes(buffer, pointers[key_index + 1].address,
                                    pointers[key_index + 1].length),
                              Bytes(buffer, pointers[value_index + 1].address,
                                    pointers[value_index + 1].length)>>]_vars

\* C3: when the block index of a tree node is past the block table, only
\* that node's sub-walk is abandoned: the process does not panic and the
\* accumulator gathered so far is kept.
C3_UnresolvableNodeIsSkipped ==
    [][(pc = "walk" /\ Top.at = "enter" /\ Top.pointer_index >= Len(pointers))
         => (pc' # "panicked" /\ current_value' = current_value)]_vars

\* An activation on a non-leaf node that declares entries.
IsMalformed(f) == f.at # "enter" /\ f.entry.is_leaf = 0 /\ f.entry.count # 0

\* C4: a non-leaf node with count # 0 is treated as having no children: the
\* closure is not invoked and the accumulator is unchanged by the node, no
\* node is entered from it but its forward sibling, and when its forward
\* link is nonzero the walk goes on into that sibling.
C4_MalformedInternalNode ==
    [][(pc = "walk" /\ IsMalformed(Top)) =>
         /\ current_value' = current_value
         /\ visited' = visited
         /\ entered' = entered
         /\ pc' # "panicked"
         /\ Len(stack') > Len(stack) =>
              /\ Top.entry.forward # 0
              /\ stack'[Len(stack')] = Frame(Top.entry.forward)
         /\ (Top.at = "forward" /\ Top.entry.forward # 0) =>
              (pc' = "overflow" \/ Len(stack') = Len(stack) + 1)]_vars

\* C4's case: the sibling of a malformed root has contributed a pair.
C4_Witness ==
    /\ pc = "walk"
    /\ Len(stack) >= 2
    /\ IsMalformed(stack[1])
    /\ stack[2].pointer_index = stack[1].entry.forward
    /\ warnings >= 1
    /\ visited # << >>

\* C5: pointer(i) returns, for i below the length of the block table, a
\* block whose range [address, address + length) lies inside the buffer,
\* and None for every other i.
C5_PointerInsideBuffer ==
    (pc = "idle" /\ call.op = "pointer") =>
        IF call.root < Len(pointers)
          THEN /\ result.kind = "some"
               /\ Fits(buffer, result.ptr.address, result.ptr.length)
          ELSE result.kind = "absent"

\* The entries a directory declares lie inside `bytes`: `left` entries from
\* offset `off`, each 5 bytes and its name.
RECURSIVE DirectoryInside(_, _, _)
DirectoryInside(bytes, left, off) ==
    \/ left = 0
    \/ /\ Fits(bytes, off, 5)
       /\ Fits(bytes, off + 5, U8(bytes, off + 4))
       /\ DirectoryInside(bytes, left - 1, off + 5 + U8(bytes, off + 4))

\* A table at offset `off` of buf: its count and the entries it declares
\* lie inside buf.
TableInside(buf, off) ==
    /\ Fits(buf, off, 4)
    /\ U32BE(buf, off) <= (Len(buf) - off - 4) \div 8

\* A load failure: the path cannot be read, or the buffer is too short for
\* the header, for the entries the block table declares, or for the
\* entries the variable directory declares.
LoadFailure ==
    \/ ~fs_read_ok
    \/ Len(buffer) < 32
    \/ ~TableInside(buffer, U32BE(buffer, 16))
    \/ ~Fits(buffer, U32BE(buffer, 24), 4)
    \/ ~DirectoryInside(SliceFrom(buffer, U32BE(buffer, 24)),
                        U32BE(buffer, U32BE(buffer, 24)), 4)

\* C6: a load failure is surfaced to the caller of the load as an
\* explicit error value, and no container is constructed.
C6_LoadFailureIsAnErrorValue ==
    (pc # "new" /\ LoadFailure) =>
        (pc # "panicked" /\ result.kind = "err" /\ pointers = << >>)

----------------------------------------------------------------------------
(* The tree a root denotes, read from the buffer.                          *)

Range(q) == {q[k] : k \in DOMAIN q}

\* The node header of block n can be read.
Readable(n) == n < Len(pointers) /\ Fits(buffer, pointers[n + 1].address, 12)

NodeEntry(n) == TreeEntryFrom(buffer, pointers[n + 1].address)

\* Where the child index of the internal node n is stored.
ChildAt(n) == pointers[n + 1].address + pointers[n + 1].length

\* The links of node n the walk follows, in the order it follows them: the
\* child of an internal node with no entries, then the forward sibling.
Links(n) ==
    IF ~Readable(n) THEN << >>
    ELSE (IF NodeEntry(n).is_leaf = 0 /\ NodeEntry(n).count = 0
             /\ Fits(buffer, ChildAt(n), 4)
            THEN <<U32BE(buffer, ChildAt(n))>> ELSE << >>)
         \o (IF NodeEntry(n).forward # 0 THEN <<NodeEntry(n).forward>> ELSE << >>)

RECURSIVE Closure(_)
Closure(S) ==
    LET T == S \cup UNION {Range(Links(n)) : n \in S}
    IN  IF T = S THEN S ELSE Closure(T)

\* The nodes reachable from root through child and forward links.
Reach(root) == Closure({root})

\* Some node reachable from root can be reached from itself.
Cyclic(root) == \E n \in Reach(root) : n \in Closure(Range(Links(n)))

\* The i-th stored pair of the leaf at address a.
PairAt(a, i) ==
    [value_index |-> U32BE(buffer, a + 12 + 8 * (i - 1)),
     key_index   |-> U32BE(buffer, a + 12 + 8 * (i - 1) + 4)]

\* A pair the fold can use: both indices inside the block table, both
\* blocks of nonzero length.
UsablePair(pr) ==
    /\ pr.key_index < Len(pointers)
    /\ pr.value_index < Len(pointers)
    /\ pointers[pr.key_index + 1].length # 0
    /\ pointers[pr.value_index + 1].length # 0

BlockBytes(index) ==
    Bytes(buffer, pointers[index + 1].address, pointers[index + 1].length)

\* own(n) of a leaf: its usable pairs, as <<key bytes, value bytes>>, in
\* stored order.
LeafPairs(n) ==
    LET all == [i \in 1..NodeEntry(n).count |-> PairAt(pointers[n + 1].address, i)]
        use == SelectSeq(all, UsablePair)
    IN  [j \in 1..Len(use) |->
           <<BlockBytes(use[j].key_index), BlockBytes(use[j].value_index)>>]

\* seq(n): own(n), then seq(forward(n)) when forward(n) # 0; own(n) is the
\* leaf's usable pairs, seq(child(n)) for an internal node with count = 0,
\* and empty otherwise.  `fuel` bounds the nesting.
RECURSIVE seq(_, _)
seq(n, fuel) ==
    IF fuel = 0 THEN << >>
    ELSE LET e == NodeEntry(n)
             own == IF e.is_leaf # 0 THEN LeafPairs(n)
                    ELSE IF e.count = 0 THEN seq(U32BE(buffer, ChildAt(n)), fuel - 1)
                    ELSE << >>
         IN  own \o (IF e.forward # 0 THEN seq(e.forward, fuel - 1) ELSE << >>)

\* The left fold of the closure of operation op over the pairs q.
RECURSIVE FoldLeft(_, _, _)
FoldLeft(op, acc, q) ==
    IF q = << >> THEN acc
    ELSE FoldLeft(op,
                  IF IsMap(op)
                    THEN [acc EXCEPT !.vec = Append(@, MapFn(Head(q)[1], Head(q)[2]))]
                    ELSE [acc EXCEPT !.count = @ + 1],
                  Tail(q))

\* C7: once reduce_tree(root, 0, count) and map_tree(root, f) have both
\* completed, the sequence map_tree returned is as long as the count, and
\* its i-th element is f of the i-th pair the fold visited; a repeated
\* map_tree on the same root returns the same sequence.
C7_MapMatchesFold ==
    /\ [](\A r \in Roots :
            (hist[r].has_count /\ hist[r].has_map) =>
               /\ Len(hist[r].map) = hist[r].count
               /\ Len(hist[r].pairs) = hist[r].count
               /\ \A i \in 1..Len(hist[r].map) :
                    hist[r].map[i] = MapFn(hist[r].pairs[i][1], hist[r].pairs[i][2]))
    /\ [][\A r \in Roots :
            (hist[r].has_map /\ hist'[r].has_map) => hist'[r].map = hist[r].map]_vars

\* C7's case: the fold and then the map have completed on a root with
\* several pairs.
C7_Witness ==
    /\ Completed
    /\ call.op = "map_tree"
    /\ hist[call.root].has_count
    /\ hist[call.root].has_map
    /\ hist[call.root].count >= 3

\* C8: reduce_tree returns the left fold of the closure, from the initial
\* accumulator, over seq(root): children before forward siblings, siblings
\* left to right, a leaf's usable pairs in stored order.
C8_FoldOverLinearizedPairs ==
    Completed =>
        result.value = FoldLeft(call.op, Empty, seq(call.root, MaxDepth))

\* C8's case: a walk over three nodes or more that combined a pair and
\* skipped another.
C8_Witness ==
    Completed /\ Len(entered) >= 3 /\ visited # << >> /\ warnings >= 1

\* The blocks node n references resolve inside the buffer: its own block,
\* and for a leaf the key and value blocks of its stored pairs.
ReferencedInside(n) ==
    /\ n < Len(pointers)
    /\ Fits(buffer, pointers[n + 1].address, pointers[n + 1].length)
    /\ (Readable(n) /\ NodeEntry(n).is_leaf # 0) =>
         \A i \in 1..NodeEntry(n).count :
            Fits(buffer, pointers[n + 1].address + 12, 8 * i) =>
              LET pr == PairAt(pointers[n + 1].address, i) IN
              /\ pr.key_index < Len(pointers)
              /\ pr.value_index < Len(pointers)
              /\ Fits(buffer, pointers[pr.key_index + 1].address,
                      pointers[pr.key_index + 1].length)
              /\ Fits(buffer, pointers[pr.value_index + 1].address,
                      pointers[pr.value_index + 1].length)

\* A valid tree: the nodes reachable from root form a finite acyclic
\* structure and every referenced block resolves inside the buffer.
Valid(root) == ~Cyclic(root) /\ \A n \in Reach(root) : ReferencedInside(n)

Occurrences(q, x) == Cardinality({k \in DOMAIN q : q[k] = x})

\* C9: a fold begun on a valid tree runs to completion: the walk is not
\* cut short by a panic or by the exhaustion of the stack, and when
\* reduce_tree returns it has visited each reachable node exactly once.
C9_ValidFoldCompletes ==
    /\ (stack # << >> /\ Valid(call.root)) => pc = "walk"
    /\ (Completed /\ Valid(call.root)) =>
          \A n \in Reach(call.root) : Occurrences(entered, n) = 1

\* The same node is pending twice on the stack.
Reentered ==
    \E j, k \in 1..Len(stack) :
        j < k /\ stack[j].pointer_index = stack[k].pointer_index

\* The depth of the innermost activation of a node that is also pending
\* further out (0 when there is none).
ReentryDepth ==
    LET again == {k \in 1..Len(stack) :
                    \E j \in 1..(k - 1) :
                       stack[j].pointer_index = stack[k].pointer_index}
    IN  IF again = {} THEN 0 ELSE CHOOSE k \in again : \A m \in again : m <= k

\* C10 as stated: when the links followed from the root lead back to a
\* node, the fold never returns an accumulator, and once a node is entered
\* again the pending depth grows with every step: it never shrinks.
C10_DepthGrowsEveryStep ==
    [][(pc = "walk" /\ Cyclic(call.root)) =>
         /\ pc' # "idle"
         /\ Reentered => (pc' \in {"walk", "overflow"}
                          /\ Len(stack') >= Len(stack))]_vars

\* C10, amended: when the links followed from the root lead back to a
\* node, the fold never returns an accumulator; an activation that entered
\* a pending node again never returns (the depth may shrink above it while
\* a child subtree returns, never below it), and the nodes are entered
\* again, ever deeper, until the call stack is exhausted.
C10_CycleNeverReturns ==
    /\ [][(pc = "walk" /\ Cyclic(call.root)) =>
            /\ pc' # "idle"
            /\ Reentered => (pc' \in {"walk", "overflow"}
                             /\ ReentryDepth' >= ReentryDepth)]_vars
    /\ [](pc = "walk" /\ Reentered => <>(pc = "overflow"))

\* MaxDepth cuts no walk short but one that has entered a node again.
DepthBoundOnlyCutsCycles == pc = "overflow" => Reentered

\* C10's case: a walk on a cyclic root has run the stack out, a child
\* subtree having returned between two entries of the same node.
C10_Witness ==
    /\ pc = "overflow"
    /\ Cyclic(call.root)
    /\ Reentered
    /\ Len(stack) = MaxDepth
    /\ Occurrences(entered, 4) >= 2
    /\ \A k \in 1..Len(stack) : stack[k].pointer_index # 4

====
